---- MODULE Spec2Model ----
(***************************************************************************)
(* A model of the veretha HR backend: the FastAPI handlers of hrapi.py     *)
(* (/register, /pay, /get-balance), the wallet-custody calls of            *)
(* circle_veretha.py (create_wallet, create_transfer, wallet_balance) and  *)
(* the entity-secret cipher of entity_secret.py.                           *)
(*                                                                         *)
(* Handlers run in FastAPI's worker threads, so requests interleave at     *)
(* every access to shared state: the users table and the provider.         *)
(*                                                                         *)
(* Library code the repository only calls is modelled by its contract:     *)
(*   - uuid.uuid4() and the OAEP seed are random draws; a draw is modelled *)
(*     as a value never drawn before (collisions of 122 random bits are    *)
(*     neglected);                                                         *)
(*   - RSA-OAEP keeps its structure (lHash || 0x01 || M masked by a seed-  *)
(*     derived mask, the seed masked by a hash of the masked block, then   *)
(*     the key's trapdoor permutation) over one-byte hashes and a bytewise *)
(*     permutation, since a 2048-bit modulus is out of reach of TLC;       *)
(*   - bytes.fromhex and base64 are computed as the libraries compute them.*)
(***************************************************************************)
EXTENDS Integers, Sequences, FiniteSets, TLC

\* ------------------------------------------------------------------ bounds

\* Inbound HTTP requests served in one behaviour.
MaxRequests == 2

\* Envelope builds in one behaviour of SpecCipher, and the largest seed byte
\* the padding draws there.
MaxBuilds == 2
MaxSeed == 15

\* --------------------------------------------------------- program constants

\* entity_secret.py:18  if len(entity_secret) != 32
EntitySecretLen == 32

\* ------------------------------------------------------------ byte helpers

RECURSIVE XorBits(_, _, _)
\* Bitwise exclusive or of the low n bits of a and b.
XorBits(a, b, n) ==
    IF n = 0 THEN 0
    ELSE (((a % 2) + (b % 2)) % 2) + 2 * XorBits(a \div 2, b \div 2, n - 1)

Xor(a, b) == XorBits(a, b, 8)

RECURSIVE SumWeighted(_, _, _)
\* Sum of xs[i] * (i + w) for i in 1..n.
SumWeighted(xs, w, n) ==
    IF n = 0 THEN 0 ELSE xs[n] * (n + w) + SumWeighted(xs, w, n - 1)

\* ---------------------------------------------------------------- hex

\* bytes.fromhex: two hex digits per byte, ValueError on an odd number of
\* digits. A hex string is the sequence of its digits' values.
BytesFromHex(h) ==
    IF Len(h) % 2 = 1
    THEN [ok |-> FALSE, val |-> <<>>]
    ELSE [ok |-> TRUE,
          val |-> [i \in 1..(Len(h) \div 2) |-> 16 * h[2 * i - 1] + h[2 * i]]]

\* ---------------------------------------------------------------- base64

B64Alphabet ==
    << "A","B","C","D","E","F","G","H","I","J","K","L","M","N","O","P",
       "Q","R","S","T","U","V","W","X","Y","Z","a","b","c","d","e","f",
       "g","h","i","j","k","l","m","n","o","p","q","r","s","t","u","v",
       "w","x","y","z","0","1","2","3","4","5","6","7","8","9","+","/" >>

\* base64.b64encode(...).decode(): every three bytes become four characters
\* of the alphabet, the last group padded with "=".
B64Encode(bs) ==
    LET n == Len(bs)
        groups == (n + 2) \div 3
        byteAt(i) == IF i <= n THEN bs[i] ELSE 0
        sextet(g, j) ==
            LET b1 == byteAt(3 * g - 2)
                b2 == byteAt(3 * g - 1)
                b3 == byteAt(3 * g)
            IN CASE j = 1 -> b1 \div 4
                 [] j = 2 -> ((b1 % 4) * 16) + (b2 \div 16)
                 [] j = 3 -> ((b2 % 16) * 4) + (b3 \div 64)
                 [] OTHER -> b3 % 64
        char(k) ==
            LET g == (k + 3) \div 4
                j == k - 4 * (g - 1)
                present == 3 * (g - 1) + j - 1 <= n
            IN IF present THEN B64Alphabet[sextet(g, j) + 1] ELSE "="
    IN [k \in 1..(4 * groups) |-> char(k)]

\* base64.b64decode: the inverse; fails on a length that is no multiple of
\* four or on a character outside the alphabet.
B64Decode(s) ==
    LET n == Len(s)
        pad == IF n >= 2 /\ s[n] = "=" /\ s[n - 1] = "=" THEN 2
               ELSE IF n >= 1 /\ s[n] = "=" THEN 1 ELSE 0
        valid == /\ n % 4 = 0
                 /\ \A k \in 1..(n - pad) : \E v \in 1..64 : B64Alphabet[v] = s[k]
        val(k) == IF k > n - pad THEN 0
                  ELSE (CHOOSE v \in 1..64 : B64Alphabet[v] = s[k]) - 1
        byte(i) ==
            LET g == (i + 2) \div 3
                j == i - 3 * (g - 1)
                c1 == val(4 * g - 3)
                c2 == val(4 * g - 2)
                c3 == val(4 * g - 1)
                c4 == val(4 * g)
            IN CASE j = 1 -> (c1 * 4) + (c2 \div 16)
                 [] j = 2 -> ((c2 % 16) * 16) + (c3 \div 4)
                 [] OTHER -> ((c3 % 4) * 64) + c4
    IN IF ~valid THEN [ok |-> FALSE, val |-> <<>>]
       ELSE [ok |-> TRUE, val |-> [i \in 1..(((n \div 4) * 3) - pad) |-> byte(i)]]

\* ---------------------------------------------------------------- RSA-OAEP

\* The hash algorithms are "SHA256", which the code passes as hashAlgo, and
\* "SHA1", the library's default when hashAlgo is omitted.
HashSalt(alg) == IF alg = "SHA256" THEN 37 ELSE 11

\* A one-byte stand-in for the hash function alg.
HashByte(alg, xs) ==
    (SumWeighted(xs, HashSalt(alg), Len(xs)) + HashSalt(alg)) % 256

\* MGF1 over alg (the library derives the mask function from hashAlgo).
MGF1(alg, seed, len) == [i \in 1..len |-> HashByte(alg, <<seed, i>>)]

\* Key pairs: the public exponent e and the private exponent d invert each
\* other modulo 256 (e * d = 1 mod 256).
KeyPairs ==
    { [id |-> 1, e |-> 3, d |-> 171],
      [id |-> 2, e |-> 5, d |-> 205] }

PublicKeyOf(kp) == [id |-> kp.id, e |-> kp.e]
PrivateKeyOf(kp) == [id |-> kp.id, d |-> kp.d]

\* PKCS1_OAEP.new(key, hashAlgo).encrypt(msg) with the drawn seed:
\* EM = 0x00 || maskedSeed || maskedDB, DB = lHash || 0x01 || msg.
OAEPEncrypt(pub, alg, seed, msg) ==
    LET db == <<HashByte(alg, <<>>), 1>> \o msg
        dbMask == MGF1(alg, seed, Len(db))
        maskedDB == [i \in 1..Len(db) |-> Xor(db[i], dbMask[i])]
        maskedSeed == Xor(seed, HashByte(alg, maskedDB))
        em == <<0, maskedSeed>> \o maskedDB
    IN [i \in 1..Len(em) |-> (em[i] * pub.e) % 256]

\* PKCS1_OAEP.new(key, hashAlgo).decrypt(ct): what the holder of the private
\* key computes; fails when the padding does not check.
OAEPDecrypt(priv, alg, ct) ==
    LET em == [i \in 1..Len(ct) |-> (ct[i] * priv.d) % 256]
        maskedDB == [i \in 1..(Len(em) - 2) |-> em[i + 2]]
        seed == Xor(em[2], HashByte(alg, maskedDB))
        dbMask == MGF1(alg, seed, Len(maskedDB))
        db == [i \in 1..Len(maskedDB) |-> Xor(maskedDB[i], dbMask[i])]
        ok == /\ Len(ct) >= 4
              /\ em[1] = 0
              /\ db[1] = HashByte(alg, <<>>)
              /\ db[2] = 1
    IN IF ok THEN [ok |-> TRUE, val |-> [i \in 1..(Len(db) - 2) |-> db[i + 2]]]
       ELSE [ok |-> FALSE, val |-> <<>>]

\* A length check that was left out.
SecretLengthUnchecked(secret) == TRUE

\* generate_entity_secret accepts the decoded secret only at this length.
SecretLengthOk(secret) == Len(secret) = EntitySecretLen

\* PKCS1_OAEP.new(key=public_key) without hashAlgo: the library's SHA-1.
EntitySecretCiphertextSha1(secret, pub, seed) ==
    B64Encode(OAEPEncrypt(pub, "SHA1", seed, secret))

\* An encryption whose padding is not drawn anew: the same seed every time.
EntitySecretCiphertextFixedSeed(secret, pub, seed) ==
    B64Encode(OAEPEncrypt(pub, "SHA256", 0, secret))

\* The ciphertext string generate_entity_secret returns for a decoded secret:
\* OAEP under SHA-256 with the drawn seed, then base64.
EntitySecretCiphertext(secret, pub, seed) ==
    B64Encode(OAEPEncrypt(pub, "SHA256", seed, secret))

\* generate_entity_secret(): the configured hex secret is decoded, its length
\* checked, and the ciphertext built; ok is FALSE when it raises ValueError.
generate_entity_secret(e, seed) ==
    LET dec == BytesFromHex(e.hexSecret)
    IN IF ~dec.ok \/ ~SecretLengthOk(dec.val)
       THEN [ok |-> FALSE, val |-> <<>>]
       ELSE [ok |-> TRUE, val |-> EntitySecretCiphertext(dec.val, e.publicKey, seed)]

\* ------------------------------------------------------------------ values

\* The worker threads that serve requests concurrently.
Workers == {"worker1", "worker2"}

Emails == {"ann@x.io", "bob@x.io"}
Passwords == {"pw1", "pw2"}
\* The password every registration sends; /login also tries the other one.
RegisterPassword == "pw1"
FullNames == {"Ann Lee"}

\* Python's None, and the identifiers the libraries and the provider hand out,
\* as tagged pairs.
None == <<"None", 0>>
Uuid4(n) == <<"uuid", n>>
WalletSetId(n) == <<"walletSet", n>>
WalletId(n) == <<"wallet", n>>
WalletAddress(n) == <<"address", n>>
TransactionId(n) == <<"transaction", n>>
Exc(name) == <<name, 0>>

\* The wallet "f89bfdb1-ccf3-517a-8046-12cffeb406de" that /pay and the
\* import-time balance call name; it exists at the provider beforehand.
KnownWalletId == WalletId(0)
PayAmount == "10"
PayDestination == "0x87568c541a2d09416ff92f05bd9ca3ffbf2c020e"
TransferTokenId == "5797fbd6-3795-519d-84ca-ec4c5f80c3b1"

\* An unset CIRCLE_API_KEY (os.getenv returns None).
NoApiKey == ""

\* Hex strings of n digits, digit i being (i * m) mod 16.
HexOfLen(n, m) == [i \in 1..n |-> (i * m) % 16]

\* Configured secrets: two of 32 bytes, one of 31, one of 33, and one with an
\* odd number of digits.
HexSecrets ==
    { HexOfLen(2 * EntitySecretLen, 0), HexOfLen(2 * EntitySecretLen, 7),
      HexOfLen(2 * EntitySecretLen - 2, 7), HexOfLen(2 * EntitySecretLen + 2, 7),
      HexOfLen(2 * EntitySecretLen - 1, 7) }

\* What the provider may answer: 200, an error status, or nothing at all
\* (status 0: the connection failed and the HTTP library raised).
ProviderErrors == {401}
Outcomes == {200, 0} \cup ProviderErrors
Is2xx(status) == status >= 200 /\ status < 300

\* How a balance request may end: no answer, an error status, or 200 with the
\* wallet's tokenBalances (none, one with an amount, one without).
BalanceAnswers ==
    { [status |-> 0, data |-> <<>>],
      [status |-> 401, data |-> <<>>],
      [status |-> 200, data |-> <<>>],
      [status |-> 200, data |-> <<[amount |-> "25"]>>],
      [status |-> 200, data |-> <<[token |-> "USDC"]>>] }

\* pwd_context.hash / pwd_context.verify (the salt is left out).
HashPassword(pw) == <<"bcrypt", pw>>
VerifyPassword(pw, hash) == hash = HashPassword(pw)

\* ------------------------------------------------------------------- state

VARIABLES
    env,        \* the environment: hexSecret, publicKey, apiKey
    users,      \* the users table, row i holding id i
    provider,   \* the provider's side: wallet sets, wallets, transfers created
    netlog,     \* every outbound request, in order, with the answer it got
    uuids,      \* uuid4 draws so far: uuids[n] is the request that drew Uuid4(n)
    built,      \* ciphertexts generate_entity_secret returned, with the request
    reqCtr,     \* inbound requests accepted so far
    pc,         \* each worker's position in its handler
    loc,        \* each worker's local variables
    fnret,      \* how the circle_veretha function each worker called ended
    result      \* the HTTP response each worker sent last

vars == <<env, users, provider, netlog, uuids, built, reqCtr, pc, loc, fnret, result>>

NoLoc ==
    [call |-> 0, ep |-> "", email |-> "", password |-> "", full_name |-> "",
     verified |-> FALSE, ciphertext |-> <<>>, idempotencyKey |-> None,
     walletSetId |-> None, wallet_id |-> None, wallet_address |-> None,
     userId |-> 0]

NoRet == [fn |-> "", kind |-> "", val |-> <<>>]
Returned(fn, val) == [fn |-> fn, kind |-> "return", val |-> val]
Raised(fn, name) == [fn |-> fn, kind |-> "raise", val |-> <<Exc(name)>>]

NoResult == [call |-> 0, ep |-> "", status |-> 0, detail |-> "", exc |-> "", body |-> [null |-> TRUE]]

\* An HTTPException raised by a handler.
HttpError(call, ep, status, detail) ==
    [call |-> call, ep |-> ep, status |-> status, detail |-> detail, exc |-> "",
     body |-> [detail |-> detail]]

\* An exception no handler catches: FastAPI answers 500.
Unhandled(call, ep, exc) ==
    [call |-> call, ep |-> ep, status |-> 500, detail |-> "Internal Server Error",
     exc |-> exc, body |-> [detail |-> "Internal Server Error"]]

Ok(call, ep, body) ==
    [call |-> call, ep |-> ep, status |-> 200, detail |-> "", exc |-> "", body |-> body]

\* The handler of worker w ends: its locals are gone, its response is sent.
Respond(w, r) ==
    /\ pc' = [pc EXCEPT ![w] = "idle"]
    /\ loc' = [loc EXCEPT ![w] = NoLoc]
    /\ result' = [result EXCEPT ![w] = r]

\* One outbound request as the provider saw it.
Sent(call, kind, payload, args, status, data) ==
    [call |-> call, kind |-> kind, payload |-> payload, args |-> args,
     status |-> status, data |-> data]

\* ------------------------------------------------------------ users table

\* A query that never finds the row.
EmailNeverFound(us, email) == FALSE

\* db.query(User).filter(User.email == email).first()
EmailRegistered(us, email) == \E i \in DOMAIN us : us[i].email = email
FirstByEmail(us, email) ==
    CHOOSE i \in DOMAIN us :
        /\ us[i].email = email
        /\ \A j \in DOMAIN us : us[j].email = email => i <= j

\* Column(String, unique=True): the insert of a second row with this email
\* fails at commit.
UniqueViolation(us, email) == \E i \in DOMAIN us : us[i].email = email

\* The dictionary /register, /login and /get-profile return for a row.
Profile(row) ==
    [id |-> row.id, email |-> row.email, full_name |-> row.full_name,
     verified |-> row.verified, wallet_id |-> row.wallet_id,
     wallet_address |-> row.wallet_address]

\* ---------------------------------------------------------------- payloads

\* A body whose idempotency key is a literal instead of the drawn one.
TransferPayloadFixedKey(ciphertext, key, wallet, amount, destination) ==
    [idempotencyKey |-> Uuid4(1),
     entitySecretCipherText |-> ciphertext,
     amounts |-> <<amount>>,
     destinationAddress |-> destination,
     feeLevel |-> "HIGH",
     tokenId |-> TransferTokenId,
     walletId |-> wallet]

\* create_transfer's JSON body.
TransferPayload(ciphertext, key, wallet, amount, destination) ==
    [idempotencyKey |-> key,
     entitySecretCipherText |-> ciphertext,
     amounts |-> <<amount>>,
     destinationAddress |-> destination,
     feeLevel |-> "HIGH",
     tokenId |-> TransferTokenId,
     walletId |-> wallet]

\* create_wallet's JSON body.
WalletPayload(ciphertext, key, name, refId, walletSetId) ==
    [blockchains |-> <<"ETH-SEPOLIA">>,
     metadata |-> <<[name |-> name, refId |-> refId]>>,
     count |-> 1,
     entitySecretCiphertext |-> ciphertext,
     idempotencyKey |-> key,
     walletSetId |-> walletSetId]

\* response.json().get('data', {}).get('wallets', [])[0]: IndexError on an
\* answer without wallets.
FirstWallet(data) ==
    IF data = <<>> THEN [ok |-> FALSE, id |-> None, address |-> None]
    ELSE [ok |-> TRUE, id |-> data[1].id, address |-> data[1].address]

\* -------------------------------------------------------------------- Init

\* The provider's key pair in the behaviours of Spec (SpecCipher draws it).
ProviderKeyPair == CHOOSE kp \in KeyPairs : kp.id = 1

\* The state once hrapi.py is imported: an empty users table, and the one
\* request circle_veretha.py sends while it is imported (its last line prints
\* wallet_balance of the known wallet).
Booted ==
    /\ users = <<>>
    /\ provider = [walletSets |-> 0, wallets |-> <<>>, transfers |-> 0]
    /\ netlog = << Sent(0, "balance", [walletId |-> KnownWalletId], <<>>,
                        IF env.apiKey = NoApiKey THEN 401 ELSE 200, <<>>) >>
    /\ uuids = <<>>
    /\ built = <<>>
    /\ reqCtr = 0
    /\ pc = [w \in Workers |-> "idle"]
    /\ loc = [w \in Workers |-> NoLoc]
    /\ fnret = [w \in Workers |-> NoRet]
    /\ result = [w \in Workers |-> NoResult]

Init ==
    /\ env \in [hexSecret : HexSecrets,
                publicKey : {PublicKeyOf(ProviderKeyPair)},
                apiKey : {NoApiKey, "TEST_API_KEY"}]
    /\ Booted

\* ---------------------------------------------------------------- /register

\* register_user up to create_wallet's first outbound call: the query for the
\* email, then create_wallet's entity secret, idempotency key and API key.
RegisterStart(w, email, password, full_name, verified) ==
    /\ pc[w] = "idle"
    /\ reqCtr < MaxRequests
    /\ reqCtr' = reqCtr + 1
    /\ UNCHANGED <<env, users, provider, netlog>>
    /\ LET call == reqCtr + 1
           gs == generate_entity_secret(env, Len(built) + 1)
       IN IF EmailRegistered(users, email)
          THEN /\ Respond(w, HttpError(call, "register", 400, "Email already registered"))
               /\ fnret' = [fnret EXCEPT ![w] = NoRet]
               /\ UNCHANGED <<uuids, built>>
          ELSE IF ~gs.ok
          THEN /\ Respond(w, Unhandled(call, "register", "ValueError"))
               /\ fnret' = [fnret EXCEPT ![w] = Raised("create_wallet", "ValueError")]
               /\ UNCHANGED <<uuids, built>>
          ELSE /\ built' = Append(built, [call |-> call, seed |-> Len(built) + 1, ciphertext |-> gs.val])
               /\ uuids' = Append(uuids, call)
               /\ IF env.apiKey = NoApiKey
                  THEN \* create_wallet returns None; the caller's unpacking raises
                       /\ Respond(w, Unhandled(call, "register", "TypeError"))
                       /\ fnret' = [fnret EXCEPT ![w] = Returned("create_wallet", <<None>>)]
                  ELSE /\ pc' = [pc EXCEPT ![w] = "create_wallet_set"]
                       /\ loc' = [loc EXCEPT ![w] =
                                    [NoLoc EXCEPT !.call = call, !.ep = "register",
                                                  !.email = email, !.password = password,
                                                  !.full_name = full_name,
                                                  !.verified = verified,
                                                  !.ciphertext = gs.val,
                                                  !.idempotencyKey = Uuid4(Len(uuids) + 1)]]
                       /\ fnret' = [fnret EXCEPT ![w] = NoRet]
                       /\ UNCHANGED result

\* create_wallet: wallet_sets_api.create_wallet_set. Whatever it raises is
\* caught by the except clause, and create_wallet returns None.
CreateWalletSet(w) ==
    /\ pc[w] = "create_wallet_set"
    /\ \E o \in Outcomes :
        LET id == WalletSetId(provider.walletSets + 1)
        IN /\ netlog' = Append(netlog,
                Sent(loc[w].call, "walletSet", [name |-> loc[w].email], <<>>, o,
                     IF Is2xx(o) THEN <<[id |-> id]>> ELSE <<>>))
           /\ IF Is2xx(o)
              THEN /\ provider' = [provider EXCEPT !.walletSets = @ + 1]
                   /\ pc' = [pc EXCEPT ![w] = "create_wallet_post"]
                   /\ loc' = [loc EXCEPT ![w].walletSetId = id]
                   /\ UNCHANGED <<fnret, result>>
              ELSE /\ Respond(w, Unhandled(loc[w].call, "register", "TypeError"))
                   /\ fnret' = [fnret EXCEPT ![w] = Returned("create_wallet", <<None>>)]
                   /\ UNCHANGED provider
    /\ UNCHANGED <<env, users, uuids, built, reqCtr>>

\* create_wallet: the POST to /developer/wallets and the reading of its
\* answer, both inside the try block.
CreateWalletPost(w) ==
    /\ pc[w] = "create_wallet_post"
    /\ \E o \in Outcomes :
        LET n == Len(provider.wallets) + 1
            created == [id |-> WalletId(n), address |-> WalletAddress(n),
                        refId |-> loc[w].email, walletSetId |-> loc[w].walletSetId]
            data == IF Is2xx(o)
                    THEN <<[id |-> created.id, address |-> created.address]>>
                    ELSE <<>>
            first == FirstWallet(data)
        IN /\ netlog' = Append(netlog,
                Sent(loc[w].call, "wallet",
                     WalletPayload(loc[w].ciphertext, loc[w].idempotencyKey,
                                   loc[w].email, loc[w].email, loc[w].walletSetId),
                     <<>>, o, data))
           /\ provider' = IF Is2xx(o)
                          THEN [provider EXCEPT !.wallets = Append(@, created)]
                          ELSE provider
           /\ IF first.ok
              THEN /\ fnret' = [fnret EXCEPT ![w] =
                                  Returned("create_wallet", <<first.id, first.address>>)]
                   /\ pc' = [pc EXCEPT ![w] = "register_commit"]
                   /\ loc' = [loc EXCEPT ![w].wallet_id = first.id,
                                         ![w].wallet_address = first.address]
                   /\ UNCHANGED result
              ELSE /\ Respond(w, Unhandled(loc[w].call, "register", "TypeError"))
                   /\ fnret' = [fnret EXCEPT ![w] = Returned("create_wallet", <<None>>)]
    /\ UNCHANGED <<env, users, uuids, built, reqCtr>>

\* register_user: db.add(new_user); db.commit(). The commit fails on the
\* unique email index, and may fail for the database's own reasons.
RegisterCommit(w) ==
    /\ pc[w] = "register_commit"
    /\ \E commits \in BOOLEAN :
        IF UniqueViolation(users, loc[w].email)
        THEN /\ Respond(w, Unhandled(loc[w].call, "register", "IntegrityError"))
             /\ UNCHANGED users
        ELSE IF ~commits
        THEN /\ Respond(w, Unhandled(loc[w].call, "register", "OperationalError"))
             /\ UNCHANGED users
        ELSE /\ users' = Append(users,
                    [id |-> Len(users) + 1,
                     email |-> loc[w].email,
                     password |-> HashPassword(loc[w].password),
                     full_name |-> loc[w].full_name,
                     verified |-> loc[w].verified,
                     wallet_id |-> loc[w].wallet_id,
                     wallet_address |-> loc[w].wallet_address])
             /\ pc' = [pc EXCEPT ![w] = "register_respond"]
             /\ loc' = [loc EXCEPT ![w].userId = Len(users) + 1]
             /\ UNCHANGED result
    /\ UNCHANGED <<env, provider, netlog, uuids, built, reqCtr, fnret>>

\* register_user: the response, read from the row as the session reloads it
\* after the commit.
RegisterRespond(w) ==
    /\ pc[w] = "register_respond"
    /\ Respond(w, Ok(loc[w].call, "register", Profile(users[loc[w].userId])))
    /\ UNCHANGED <<env, users, provider, netlog, uuids, built, reqCtr, fnret>>

\* --------------------------------------------------------------------- /pay

\* pay calls create_transfer with its fixed arguments; this is create_transfer
\* up to its POST: the entity secret, the idempotency key, the headers.
PayStart(w) ==
    /\ pc[w] = "idle"
    /\ reqCtr < MaxRequests
    /\ reqCtr' = reqCtr + 1
    /\ UNCHANGED <<env, users, provider, netlog>>
    /\ LET call == reqCtr + 1
           gs == generate_entity_secret(env, Len(built) + 1)
       IN IF ~gs.ok
          THEN /\ Respond(w, Unhandled(call, "pay", "ValueError"))
               /\ fnret' = [fnret EXCEPT ![w] = Raised("create_transfer", "ValueError")]
               /\ UNCHANGED <<uuids, built>>
          ELSE /\ built' = Append(built, [call |-> call, seed |-> Len(built) + 1, ciphertext |-> gs.val])
               /\ uuids' = Append(uuids, call)
               /\ IF env.apiKey = NoApiKey
                  THEN \* "Bearer " + None
                       /\ Respond(w, Unhandled(call, "pay", "TypeError"))
                       /\ fnret' = [fnret EXCEPT ![w] = Raised("create_transfer", "TypeError")]
                  ELSE /\ pc' = [pc EXCEPT ![w] = "transfer_post"]
                       /\ loc' = [loc EXCEPT ![w] =
                                    [NoLoc EXCEPT !.call = call, !.ep = "pay",
                                                  !.ciphertext = gs.val,
                                                  !.idempotencyKey = Uuid4(Len(uuids) + 1)]]
                       /\ fnret' = [fnret EXCEPT ![w] = NoRet]
                       /\ UNCHANGED result

\* create_transfer: the POST and response.json().get('data').get('id'); pay
\* drops what create_transfer returns.
TransferPost(w) ==
    /\ pc[w] = "transfer_post"
    /\ \E o \in Outcomes :
        LET id == TransactionId(provider.transfers + 1)
        IN /\ netlog' = Append(netlog,
                Sent(loc[w].call, "transfer",
                     TransferPayload(loc[w].ciphertext, loc[w].idempotencyKey,
                                     KnownWalletId, PayAmount, PayDestination),
                     [from_wallet_id |-> KnownWalletId, amount |-> PayAmount,
                      destination_address |-> PayDestination],
                     o, IF Is2xx(o) THEN <<[id |-> id]>> ELSE <<>>))
           /\ IF Is2xx(o)
              THEN /\ provider' = [provider EXCEPT !.transfers = @ + 1]
                   /\ fnret' = [fnret EXCEPT ![w] = Returned("create_transfer", <<id>>)]
                   /\ Respond(w, Ok(loc[w].call, "pay", [null |-> TRUE]))
              ELSE IF o = 0
              THEN /\ fnret' = [fnret EXCEPT ![w] = Raised("create_transfer", "ConnectionError")]
                   /\ Respond(w, Unhandled(loc[w].call, "pay", "ConnectionError"))
                   /\ UNCHANGED provider
              ELSE \* the error body holds no 'data': None.get raises
                   /\ fnret' = [fnret EXCEPT ![w] = Raised("create_transfer", "AttributeError")]
                   /\ Respond(w, Unhandled(loc[w].call, "pay", "AttributeError"))
                   /\ UNCHANGED provider
    /\ UNCHANGED <<env, users, uuids, built, reqCtr>>

\* ------------------------------------------------------------- /get-balance

\* get_balance and wallet_balance: the GET is outside the try block, the
\* reading of the answer inside it.
GetBalance(w, wallet_id) ==
    /\ pc[w] = "idle"
    /\ reqCtr < MaxRequests
    /\ reqCtr' = reqCtr + 1
    /\ \E answer \in BalanceAnswers :
        LET call == reqCtr + 1
            o == answer.status
            data == answer.data
            amount == IF data = <<>> THEN "0"
                      ELSE IF "amount" \in DOMAIN data[1] THEN data[1].amount
                      ELSE "0"
        IN /\ netlog' = Append(netlog,
                Sent(call, "balance", [walletId |-> wallet_id], <<>>, o, data))
           /\ IF o = 0
              THEN /\ fnret' = [fnret EXCEPT ![w] = Raised("wallet_balance", "ConnectionError")]
                   /\ Respond(w, Unhandled(call, "get-balance", "ConnectionError"))
              ELSE /\ fnret' = [fnret EXCEPT ![w] = Returned("wallet_balance", <<amount>>)]
                   /\ Respond(w, Ok(call, "get-balance", [balance |-> amount]))
    /\ UNCHANGED <<env, users, provider, uuids, built>>

\* ------------------------------------------------------------ /set-verified

\* set_verified: the query for the email.
SetVerifiedStart(w, email) ==
    /\ pc[w] = "idle"
    /\ reqCtr < MaxRequests
    /\ reqCtr' = reqCtr + 1
    /\ fnret' = [fnret EXCEPT ![w] = NoRet]
    /\ IF ~EmailRegistered(users, email)
       THEN Respond(w, HttpError(reqCtr + 1, "set-verified", 404, "User not found"))
       ELSE /\ pc' = [pc EXCEPT ![w] = "set_verified_commit"]
            /\ loc' = [loc EXCEPT ![w] =
                         [NoLoc EXCEPT !.call = reqCtr + 1, !.ep = "set-verified",
                                       !.email = email,
                                       !.userId = FirstByEmail(users, email)]]
            /\ UNCHANGED result
    /\ UNCHANGED <<env, users, provider, netlog, uuids, built>>

\* A set_verified that flips the flag instead of setting it.
MarkVerifiedFlipped(row) == [row EXCEPT !.verified = ~row.verified]

\* db_user.verified = True: the one attribute the session marks dirty, so the
\* UPDATE the commit issues names this column of this row alone.
MarkVerified(row) == [row EXCEPT !.verified = TRUE]

\* set_verified: db_user.verified = True; db.commit(); db.refresh(db_user).
SetVerifiedCommit(w) ==
    /\ pc[w] = "set_verified_commit"
    /\ \E commits \in BOOLEAN :
        IF commits
        THEN /\ users' = [users EXCEPT ![loc[w].userId] = MarkVerified(@)]
             /\ Respond(w, Ok(loc[w].call, "set-verified",
                              [message |-> <<loc[w].email, TRUE>>]))
        ELSE /\ Respond(w, Unhandled(loc[w].call, "set-verified", "OperationalError"))
             /\ UNCHANGED users
    /\ UNCHANGED <<env, provider, netlog, uuids, built, reqCtr, fnret>>

\* ------------------------------------------------------ /login, /get-profile

\* login_user
Login(w, email, password) ==
    /\ pc[w] = "idle"
    /\ reqCtr < MaxRequests
    /\ reqCtr' = reqCtr + 1
    /\ fnret' = [fnret EXCEPT ![w] = NoRet]
    /\ IF /\ EmailRegistered(users, email)
          /\ VerifyPassword(password, users[FirstByEmail(users, email)].password)
       THEN Respond(w, Ok(reqCtr + 1, "login", Profile(users[FirstByEmail(users, email)])))
       ELSE Respond(w, HttpError(reqCtr + 1, "login", 400, "Invalid credentials"))
    /\ UNCHANGED <<env, users, provider, netlog, uuids, built>>

\* get_profile
GetProfile(w, email) ==
    /\ pc[w] = "idle"
    /\ reqCtr < MaxRequests
    /\ reqCtr' = reqCtr + 1
    /\ fnret' = [fnret EXCEPT ![w] = NoRet]
    /\ IF EmailRegistered(users, email)
       THEN Respond(w, Ok(reqCtr + 1, "get-profile", Profile(users[FirstByEmail(users, email)])))
       ELSE Respond(w, HttpError(reqCtr + 1, "get-profile", 404, "User not found"))
    /\ UNCHANGED <<env, users, provider, netlog, uuids, built>>

\* -------------------------------------------------------------------- Next

Next ==
    \E w \in Workers :
        \/ \E email \in Emails, full_name \in FullNames :
                \* verified is left at UserCreate's default
                RegisterStart(w, email, RegisterPassword, full_name, FALSE)
        \/ CreateWalletSet(w)
        \/ CreateWalletPost(w)
        \/ RegisterCommit(w)
        \/ RegisterRespond(w)
        \/ PayStart(w)
        \/ TransferPost(w)
        \/ GetBalance(w, KnownWalletId)
        \/ \E email \in Emails : SetVerifiedStart(w, email)
        \/ SetVerifiedCommit(w)

\* Every handler that writes to the users table or calls the provider.
Spec == Init /\ [][Next]_vars

\* The handlers of the users table alone, the two that only read it included.
NextUsers ==
    \E w \in Workers :
        \/ \E email \in Emails, full_name \in FullNames, verified \in BOOLEAN :
                RegisterStart(w, email, RegisterPassword, full_name, verified)
        \/ CreateWalletSet(w)
        \/ CreateWalletPost(w)
        \/ RegisterCommit(w)
        \/ RegisterRespond(w)
        \/ \E email \in Emails : SetVerifiedStart(w, email)
        \/ SetVerifiedCommit(w)
        \/ \E email \in Emails, password \in Passwords : Login(w, email, password)
        \/ \E email \in Emails : GetProfile(w, email)

SpecUsers == Init /\ [][NextUsers]_vars

\* ------------------------------------------------ the envelope builder alone

\* generate_entity_secret as a function of its inputs: every configured secret
\* under every key pair, the padding's seed drawn from 0..MaxSeed and never
\* drawn twice.
InitCipher ==
    /\ env \in [hexSecret : HexSecrets,
                publicKey : {PublicKeyOf(kp) : kp \in KeyPairs},
                apiKey : {"TEST_API_KEY"}]
    /\ Booted

\* One call of generate_entity_secret that returns.
BuildEnvelope(seed) ==
    /\ Len(built) < MaxBuilds
    /\ \A i \in DOMAIN built : built[i].seed # seed
    /\ LET gs == generate_entity_secret(env, seed)
       IN /\ gs.ok
          /\ built' = Append(built, [call |-> 0, seed |-> seed, ciphertext |-> gs.val])
    /\ UNCHANGED <<env, users, provider, netlog, uuids, reqCtr, pc, loc, fnret, result>>

NextCipher == \E seed \in 0..MaxSeed : BuildEnvelope(seed)

SpecCipher == InitCipher /\ [][NextCipher]_vars

\* ================================================================== claims

ProviderCalls == {"transfer", "walletSet", "wallet"}
Finished(w) == pc[w] = "idle" /\ result[w].call # 0
RequestsOf(call) == {i \in DOMAIN netlog : netlog[i].call = call}
KeyedRequests == {i \in DOMAIN netlog : netlog[i].kind \in {"transfer", "wallet"}}
SecretBytes == BytesFromHex(env.hexSecret)
HasRaised(w, fn, name) ==
    /\ fnret[w].fn = fn
    /\ fnret[w].kind = "raise"
    /\ fnret[w].val = <<Exc(name)>>
SecretDecodesToWrongLength == SecretBytes.ok /\ Len(SecretBytes.val) # EntitySecretLen

\* ---------------------------------------------------------------------- C1
\* C1: when the configured entity secret decodes to a length other than 32
\* bytes, create_wallet and create_transfer both end by raising ValueError
\* (the configuration error), no worker gets past generate_entity_secret, and
\* no transfer POST, wallet-set creation or wallet POST is ever sent.
C1_WrongLengthFailsBeforeNetwork ==
    SecretDecodesToWrongLength =>
        /\ \A i \in DOMAIN netlog : netlog[i].kind \notin ProviderCalls
        /\ \A w \in Workers :
            /\ pc[w] \notin {"create_wallet_set", "create_wallet_post",
                             "register_commit", "register_respond", "transfer_post"}
            /\ (Finished(w) /\ result[w].ep = "register" /\ result[w].status # 400)
                  => /\ HasRaised(w, "create_wallet", "ValueError")
                     /\ result[w].exc = "ValueError"
            /\ (Finished(w) /\ result[w].ep = "pay")
                  => /\ HasRaised(w, "create_transfer", "ValueError")
                     /\ result[w].exc = "ValueError"
        /\ users = <<>>

\* Both functions have been called under a secret of the wrong length.
C1_Witness ==
    /\ SecretDecodesToWrongLength
    /\ \E w1, w2 \in Workers :
        /\ HasRaised(w1, "create_wallet", "ValueError")
        /\ HasRaised(w2, "create_transfer", "ValueError")

\* ---------------------------------------------------------------------- C2
\* C2: every wallet POST and transfer POST carries, under the name
\* idempotencyKey, a uuid4 drawn during the very call that sends it; no two
\* requests carry the same key; no key is in a users row, and none is held by
\* a worker whose call has returned. (The wallet-set request is built by the
\* provider's SDK from {name}; its key is not the repository's to set.)
C2_IdempotencyKeysFresh ==
    /\ \A i \in KeyedRequests :
        /\ "idempotencyKey" \in DOMAIN netlog[i].payload
        /\ \E n \in DOMAIN uuids :
            /\ netlog[i].payload.idempotencyKey = Uuid4(n)
            /\ uuids[n] = netlog[i].call
    /\ \A i, j \in KeyedRequests :
        i # j => netlog[i].payload.idempotencyKey # netlog[j].payload.idempotencyKey
    /\ \A i \in DOMAIN users :
        /\ users[i].wallet_id[1] # "uuid"
        /\ users[i].wallet_address[1] # "uuid"
    /\ \A w \in Workers : pc[w] = "idle" => loc[w].idempotencyKey = None

\* Two transfers, and a wallet creation beside a transfer, have been sent.
C2_Witness ==
    /\ \E i, j \in KeyedRequests :
        /\ i # j
        /\ netlog[i].kind = "transfer"
        /\ netlog[j].kind = "transfer"
    \/ \E i, j \in KeyedRequests :
        /\ netlog[i].kind = "wallet"
        /\ netlog[j].kind = "transfer"

\* ---------------------------------------------------------------------- C3
\* C3: every transfer request holds exactly the fields entitySecretCiphertext,
\* idempotencyKey, walletId, destinationAddress, amount, tokenId and feeLevel,
\* with walletId, destinationAddress and amount equal to create_transfer's
\* arguments.
C3_TransferFieldsAsSpecified ==
    \A i \in DOMAIN netlog :
        netlog[i].kind = "transfer" =>
            /\ DOMAIN netlog[i].payload =
                  {"entitySecretCiphertext", "idempotencyKey", "walletId",
                   "destinationAddress", "amount", "tokenId", "feeLevel"}
            /\ netlog[i].payload.walletId = netlog[i].args.from_wallet_id
            /\ netlog[i].payload.destinationAddress = netlog[i].args.destination_address
            /\ netlog[i].payload.amount = netlog[i].args.amount

\* ---------------------------------------------------------------------- C4
\* C4: when the provider answers a wallet-creation or transfer request with a
\* non-2xx status, the function raises, the HTTP caller gets that status, and
\* the request is sent once.
C4_ProviderErrorRelayed ==
    \A w \in Workers :
        Finished(w) =>
            \A i \in RequestsOf(result[w].call) :
                (netlog[i].kind \in ProviderCalls /\ netlog[i].status \in ProviderErrors)
                    => /\ fnret[w].kind = "raise"
                       /\ result[w].status = netlog[i].status
                       /\ \A j \in RequestsOf(result[w].call) :
                            netlog[j].kind = netlog[i].kind => j = i

\* ---------------------------------------------------------------------- C5
\* C5: for every 32-byte secret and every key pair, base64-decoding what
\* generate_entity_secret returned and decrypting it with the matching
\* private key (OAEP, SHA-256) gives back the 32 bytes of the secret.
C5_CiphertextDecryptsToSecret ==
    \A i \in DOMAIN built :
        LET kp == CHOOSE k \in KeyPairs : PublicKeyOf(k) = env.publicKey
            raw == B64Decode(built[i].ciphertext)
        IN /\ raw.ok
           /\ OAEPDecrypt(PrivateKeyOf(kp), "SHA256", raw.val)
                 = [ok |-> TRUE, val |-> SecretBytes.val]
           /\ Len(SecretBytes.val) = EntitySecretLen

\* A secret that is not all zeros has been encrypted twice under key pair 2.
C5_Witness ==
    /\ Len(built) = MaxBuilds
    /\ env.publicKey.id = 2
    /\ \E i \in DOMAIN SecretBytes.val : SecretBytes.val[i] # 0

\* ---------------------------------------------------------------------- C6
\* C6: each create_wallet and create_transfer call gets its ciphertext from
\* one call of generate_entity_secret of its own, the request it sends
\* carries that string, no two builds return the same string, and a worker
\* whose call has returned holds none.
CiphertextOf(payload) ==
    IF "entitySecretCiphertext" \in DOMAIN payload
    THEN payload.entitySecretCiphertext
    ELSE payload.entitySecretCipherText

C6_CiphertextFreshPerCall ==
    /\ \A i, j \in DOMAIN built :
        i # j => /\ built[i].ciphertext # built[j].ciphertext
                 /\ built[i].call # built[j].call
    /\ \A i \in KeyedRequests :
        \E k \in DOMAIN built :
            /\ built[k].call = netlog[i].call
            /\ built[k].ciphertext = CiphertextOf(netlog[i].payload)
    /\ \A w \in Workers : pc[w] = "idle" => loc[w].ciphertext = <<>>

\* Two calls have each sent a request with a ciphertext.
C6_Witness ==
    \E i, j \in KeyedRequests :
        /\ netlog[i].call # netlog[j].call
        /\ Len(CiphertextOf(netlog[i].payload)) > 0
        /\ Len(CiphertextOf(netlog[j].payload)) > 0

\* ---------------------------------------------------------------------- C7
\* C7: a call sends each of its provider requests at most once, and when a
\* request got no answer (the HTTP library raised) the function raises that
\* same exception instead of returning a value.
C7_SentOnceAndFailurePropagates ==
    /\ \A i, j \in DOMAIN netlog :
        (i # j /\ netlog[i].call # 0 /\ netlog[i].call = netlog[j].call)
            => netlog[i].kind # netlog[j].kind
    /\ \A w \in Workers :
        Finished(w) =>
            \A i \in RequestsOf(result[w].call) :
                netlog[i].status = 0
                    => /\ fnret[w].kind = "raise"
                       /\ fnret[w].val = <<Exc("ConnectionError")>>

\* ---------------------------------------------------------------------- C8
\* C8: a /register that answers 200 has stored, and returns, the id and the
\* address of the first wallet of the provider's answer; a /pay whose transfer
\* the provider accepted returns the provider's transaction id.
C8_ExtractedFieldsRelayed ==
    \A w \in Workers :
        Finished(w) =>
            /\ (result[w].ep = "register" /\ result[w].status = 200) =>
                \E i \in RequestsOf(result[w].call) :
                    /\ netlog[i].kind = "wallet"
                    /\ result[w].body.wallet_id = netlog[i].data[1].id
                    /\ result[w].body.wallet_address = netlog[i].data[1].address
                    /\ \E u \in DOMAIN users :
                        /\ users[u].id = result[w].body.id
                        /\ users[u].wallet_id = netlog[i].data[1].id
                        /\ users[u].wallet_address = netlog[i].data[1].address
            /\ \A i \in RequestsOf(result[w].call) :
                (netlog[i].kind = "transfer" /\ Is2xx(netlog[i].status)) =>
                    /\ "id" \in DOMAIN result[w].body
                    /\ result[w].body.id = netlog[i].data[1].id

\* ---------------------------------------------------------------------- C9
\* C9: a /register for an email that has a row answers 400 "Email already
\* registered" in the step that looks the email up, with the users table, the
\* provider and the log of outbound requests as they were; and no two rows
\* ever hold the same email.
UniqueEmails ==
    \A i, j \in DOMAIN users : users[i].email = users[j].email => i = j

RegisterOfKnownEmailRejected ==
    \A w \in Workers, email \in Emails :
        ( /\ \E i \in DOMAIN users : users[i].email = email
          /\ \E password \in Passwords, full_name \in FullNames, verified \in BOOLEAN :
                RegisterStart(w, email, password, full_name, verified) )
        => /\ result'[w].call = reqCtr'
           /\ result'[w].status = 400
           /\ result'[w].detail = "Email already registered"
           /\ pc'[w] = "idle"
           /\ UNCHANGED <<users, provider, netlog>>

C9_DuplicateEmailRejected ==
    [](UniqueEmails) /\ [][RegisterOfKnownEmailRejected]_vars

\* A /register for an email that has a row has been answered.
C9_Witness ==
    \E w \in Workers :
        /\ Finished(w)
        /\ result[w].ep = "register"
        /\ result[w].status = 400
        /\ Len(users) = 1

\* --------------------------------------------------------------------- C10
\* C10: once no request is in flight, every wallet /register created at the
\* provider is the wallet_id of exactly one users row.
C10_EveryWalletRecorded ==
    (\A w \in Workers : pc[w] = "idle") =>
        \A k \in DOMAIN provider.wallets :
            Cardinality({u \in DOMAIN users :
                            users[u].wallet_id = provider.wallets[k].id}) = 1

\* --------------------------------------------------------------------- C11
\* The rows of the table that hold this email.
RowsOf(us, email) == {i \in DOMAIN us : us[i].email = email}

\* Worker w's handler of /set-verified ends in this step.
SetVerifiedEnds(w) ==
    /\ result'[w] # result[w]
    /\ result'[w].ep = "set-verified"

\* A /set-verified for an email no row holds answers 404 "User not found".
SetVerifiedUnknownIs404 ==
    \A w \in Workers, email \in Emails :
        (SetVerifiedStart(w, email) /\ RowsOf(users, email) = {})
            => /\ SetVerifiedEnds(w)
               /\ result'[w].status = 404
               /\ result'[w].detail = "User not found"

\* A /set-verified that answers 404 has written nothing; one that answers 200
\* has set the flag of the row of its email and left every other field of that
\* row, every other row and the number of rows as they were; none answers
\* with another success or client-error status.
SetVerifiedWritesFlagOnly ==
    \A w \in Workers :
        SetVerifiedEnds(w) =>
            /\ result'[w].status \in {200, 404, 500}
            /\ result'[w].status # 200 => users' = users
            /\ result'[w].status = 200 =>
                /\ RowsOf(users, loc[w].email) # {}
                /\ DOMAIN users' = DOMAIN users
                /\ \A i \in DOMAIN users :
                    IF users[i].email = loc[w].email
                    THEN /\ users'[i].verified = TRUE
                         /\ [users'[i] EXCEPT !.verified = users[i].verified] = users[i]
                    ELSE users'[i] = users[i]

\* No step takes a verified user's flag back to False or removes the user.
VerifiedStaysTrue ==
    \A i \in DOMAIN users :
        users[i].verified =>
            \E j \in DOMAIN users' :
                /\ users'[j].email = users[i].email
                /\ users'[j].verified

\* C11: /set-verified for an existing email sets that user's verified flag to
\* True and changes no other field or row; for an unknown email it answers 404
\* and leaves the table unchanged; and once a user's flag is True, no step of
\* /register, /login, /get-profile or /set-verified makes it False again.
C11_SetVerifiedOnlyRaisesFlag ==
    /\ [][SetVerifiedUnknownIs404]_vars
    /\ [][SetVerifiedWritesFlagOnly]_vars
    /\ [][VerifiedStaysTrue]_vars

\* A user registered unverified has been verified by a later /set-verified.
C11_Witness ==
    \E w1, w2 \in Workers :
        /\ result[w1].ep = "register"
        /\ result[w1].status = 200
        /\ result[w1].body.verified = FALSE
        /\ result[w2].ep = "set-verified"
        /\ result[w2].status = 200
        /\ \E i \in DOMAIN users :
            /\ users[i].email = result[w1].body.email
            /\ users[i].verified = TRUE

====
